---- MODULE Spec2Model ----
(***************************************************************************)
(* Margin penalty calculator (src/MP.py, tab "Basic Penalty Check").       *)
(*                                                                         *)
(* The script is a Streamlit page: five input widgets hold the session's   *)
(* values, and every committed change of a widget re-runs the script from  *)
(* top to bottom, recomputing every result from the widget values.         *)
(*                                                                         *)
(* Amounts are Python floats (IEEE-754 binary64).  They are modelled bit   *)
(* for bit: a float is a 53-bit significand (a natural number held as      *)
(* base-2^15 limbs, least significant first, since a significand does not  *)
(* fit a 32-bit integer) and a binary exponent, and every arithmetic       *)
(* operation rounds to nearest, ties to even, as the hardware does.        *)
(***************************************************************************)
EXTENDS Integers, Sequences, FiniteSets

(***************************************************************************)
(* Natural numbers of any size: sequences of limbs, least significant      *)
(* first, without leading zero limbs (zero is the empty sequence).         *)
(***************************************************************************)
Base == 32768
LimbBits == 15

RECURSIVE Pow2(_)
Pow2(n) == IF n = 0 THEN 1 ELSE 2 * Pow2(n - 1)

RECURSIVE BNorm(_)
BNorm(a) ==
    IF a = <<>> THEN <<>>
    ELSE IF a[Len(a)] = 0 THEN BNorm(SubSeq(a, 1, Len(a) - 1))
    ELSE a

RECURSIVE BFromInt(_)
BFromInt(n) == IF n = 0 THEN <<>> ELSE <<n % Base>> \o BFromInt(n \div Base)

RECURSIVE BToInt(_)
BToInt(a) == IF a = <<>> THEN 0 ELSE a[1] + Base * BToInt(Tail(a))

RECURSIVE BCmpFrom(_, _, _)
BCmpFrom(a, b, i) ==
    IF i = 0 THEN 0
    ELSE IF a[i] > b[i] THEN 1
    ELSE IF a[i] < b[i] THEN -1
    ELSE BCmpFrom(a, b, i - 1)

BCmp(a, b) ==
    IF Len(a) > Len(b) THEN 1
    ELSE IF Len(a) < Len(b) THEN -1
    ELSE BCmpFrom(a, b, Len(a))

Limb(a, i) == IF i <= Len(a) THEN a[i] ELSE 0

RECURSIVE BAddFrom(_, _, _, _)
BAddFrom(a, b, i, carry) ==
    IF i > Len(a) /\ i > Len(b)
    THEN IF carry = 0 THEN <<>> ELSE <<carry>>
    ELSE LET t == Limb(a, i) + Limb(b, i) + carry
         IN  <<t % Base>> \o BAddFrom(a, b, i + 1, t \div Base)

BAdd(a, b) == BAddFrom(a, b, 1, 0)

RECURSIVE BSubFrom(_, _, _, _)
BSubFrom(a, b, i, borrow) ==
    IF i > Len(a) THEN <<>>
    ELSE LET t == a[i] - Limb(b, i) - borrow
         IN  IF t < 0
             THEN <<t + Base>> \o BSubFrom(a, b, i + 1, 1)
             ELSE <<t>> \o BSubFrom(a, b, i + 1, 0)

\* a - b, for a >= b
BSub(a, b) == BNorm(BSubFrom(a, b, 1, 0))

RECURSIVE BMulSmallFrom(_, _, _, _)
BMulSmallFrom(a, k, i, carry) ==
    IF i > Len(a)
    THEN IF carry = 0 THEN <<>> ELSE <<carry>>
    ELSE LET t == a[i] * k + carry
         IN  <<t % Base>> \o BMulSmallFrom(a, k, i + 1, t \div Base)

\* a * k, for 0 <= k < Base
BMulSmall(a, k) == IF k = 0 THEN <<>> ELSE BMulSmallFrom(a, k, 1, 0)

Zeros(w) == [i \in 1..w |-> 0]

BShlLimbs(a, w) == IF a = <<>> THEN <<>> ELSE Zeros(w) \o a

RECURSIVE BMulFrom(_, _, _)
BMulFrom(a, b, i) ==
    IF i > Len(b) THEN <<>>
    ELSE BAdd(BShlLimbs(BMulSmall(a, b[i]), i - 1), BMulFrom(a, b, i + 1))

BMul(a, b) == BMulFrom(a, b, 1)

Reverse(a) == [i \in 1..Len(a) |-> a[Len(a) + 1 - i]]

\* the digits of floor(a / d), most significant first
RECURSIVE BDivSmallFrom(_, _, _, _)
BDivSmallFrom(a, d, i, rem) ==
    IF i = 0 THEN <<>>
    ELSE LET t == rem * Base + a[i]
         IN  <<t \div d>> \o BDivSmallFrom(a, d, i - 1, t % d)

\* floor(a / d), for 0 < d <= Base
BDivSmall(a, d) == BNorm(Reverse(BDivSmallFrom(a, d, Len(a), 0)))

BShl(a, n) == BShlLimbs(BMulSmall(a, Pow2(n % LimbBits)), n \div LimbBits)

BDropLimbs(a, w) == IF w >= Len(a) THEN <<>> ELSE SubSeq(a, w + 1, Len(a))

BShr(a, n) == BDivSmall(BDropLimbs(a, n \div LimbBits), Pow2(n % LimbBits))

RECURSIVE IntBitLen(_)
IntBitLen(n) == IF n = 0 THEN 0 ELSE 1 + IntBitLen(n \div 2)

BBitLen(a) == IF a = <<>> THEN 0 ELSE LimbBits * (Len(a) - 1) + IntBitLen(a[Len(a)])

\* bit i of a (bit 0 is the least significant)
BBit(a, i) == (Limb(a, i \div LimbBits + 1) \div Pow2(i % LimbBits)) % 2

\* some bit among the lowest n bits of a is set
BLowBits(a, n) ==
    \/ \E i \in 1..(n \div LimbBits) : Limb(a, i) # 0
    \/ Limb(a, n \div LimbBits + 1) % Pow2(n % LimbBits) # 0

BIsOdd(a) == a # <<>> /\ a[1] % 2 = 1

\* (quotient digit, remainder) of rem / d for rem < d * Base, d's top limb >= Base/2
RECURSIVE BDigitFix(_, _, _)
BDigitFix(q, rem, d) ==
    IF BCmp(rem, d) >= 0 THEN BDigitFix(q + 1, BSub(rem, d), d) ELSE <<q, rem>>

BDigit(rem, d) ==
    LET n    == Len(d)
        top2 == Limb(rem, n + 1) * Base + Limb(rem, n)
        qlo  == top2 \div (d[n] + 1)
    IN  BDigitFix(qlo, BSub(rem, BMulSmall(d, qlo)), d)

\* the digits of floor(a / d), most significant first, followed by the remainder
RECURSIVE BDivModFrom(_, _, _, _)
BDivModFrom(a, d, i, rem) ==
    IF i = 0 THEN <<rem>>
    ELSE LET dig == BDigit(BNorm(<<a[i]>> \o rem), d)
         IN  <<dig[1]>> \o BDivModFrom(a, d, i - 1, dig[2])

\* <<floor(a / d), a mod d # 0>>, for d # 0
BDivMod(a, d) ==
    LET s  == LimbBits - IntBitLen(d[Len(d)])
        an == BShl(a, s)
        r  == BDivModFrom(an, BShl(d, s), Len(an), <<>>)
    IN  <<BNorm(Reverse(SubSeq(r, 1, Len(r) - 1))), r[Len(r)] # <<>>>>

(***************************************************************************)
(* Python floats: IEEE-754 binary64, round to nearest, ties to even.       *)
(* A float is [m, e] with value m * 2^e, where m = 0 (e = 0) or            *)
(* 2^52 <= m < 2^53.  Only non-negative values occur: the one difference   *)
(* that may be negative is cut off by max(0, .) before it is used.  The    *)
(* exponents of all values here stay far inside binary64's range.          *)
(***************************************************************************)
MantBits == 53

FZero == [m |-> <<>>, e |-> 0]

\* the float nearest to n * 2^e (+ a non-zero fraction of 2^e when sticky)
FRound(n, e, sticky) ==
    LET len == BBitLen(n)
    IN  IF len = 0 THEN FZero
        ELSE IF len <= MantBits
        THEN [m |-> BShl(n, MantBits - len), e |-> e - (MantBits - len)]
        ELSE LET k     == len - MantBits
                 q     == BShr(n, k)
                 guard == BBit(n, k - 1) = 1
                 rest  == sticky \/ BLowBits(n, k - 1)
                 up    == guard /\ (rest \/ BIsOdd(q))
                 r     == IF up THEN BAdd(q, <<1>>) ELSE q
             IN  IF BBitLen(r) > MantBits
                 THEN [m |-> BShr(r, 1), e |-> e + k + 1]
                 ELSE [m |-> r, e |-> e + k]

FromInt(n) == FRound(BFromInt(n), 0, FALSE)

\* -1, 0, 1 as x < y, x = y, x > y
FCmp(x, y) ==
    IF x.m = <<>> THEN (IF y.m = <<>> THEN 0 ELSE -1)
    ELSE IF y.m = <<>> THEN 1
    ELSE IF x.e > y.e THEN 1
    ELSE IF x.e < y.e THEN -1
    ELSE BCmp(x.m, y.m)

FGe(x, y) == FCmp(x, y) >= 0
FGt(x, y) == FCmp(x, y) > 0

\* x + y
FAdd(x, y) ==
    IF x.m = <<>> THEN y
    ELSE IF y.m = <<>> THEN x
    ELSE LET hi == IF x.e >= y.e THEN x ELSE y
             lo == IF x.e >= y.e THEN y ELSE x
         IN  FRound(BAdd(BShl(hi.m, hi.e - lo.e), lo.m), lo.e, FALSE)

\* x - y, for x >= y
FSub(x, y) ==
    IF y.m = <<>> THEN x
    ELSE FRound(BSub(BShl(x.m, x.e - y.e), y.m), y.e, FALSE)

\* x * y
FMul(x, y) ==
    IF x.m = <<>> \/ y.m = <<>> THEN FZero
    ELSE FRound(BMul(x.m, y.m), x.e + y.e, FALSE)

\* x / y, for y # 0
FDiv(x, y) ==
    IF x.m = <<>> THEN FZero
    ELSE LET k  == MantBits + 2
             qr == BDivMod(BShl(x.m, k), y.m)
         IN  FRound(qr[1], x.e - k - y.e, qr[2])

\* the float a decimal literal or a typed decimal number denotes: n / 10^d
RECURSIVE Pow10From(_, _)
Pow10From(d, acc) ==
    IF d = 0 \/ acc = <<>> THEN acc ELSE Pow10From(d - 1, BMulSmall(acc, 10))

Pow10(d) == Pow10From(d, <<1>>)

FromDecimal(n, d) ==
    IF n = 0 THEN FZero
    ELSE LET k  == MantBits + 2 + BBitLen(Pow10(d))
             qr == BDivMod(BShl(BFromInt(n), k), Pow10(d))
         IN  FRound(qr[1], -k, qr[2])

\* format(x, ".<d>f"): x rounded to d decimals (correctly, ties to even on the
\* float's exact value), as the integer of its digits
Format(x, d) ==
    IF x.m = <<>> THEN <<>>
    ELSE LET n == BMul(x.m, Pow10(d))
         IN  IF x.e >= 0 THEN BShl(n, x.e)
             ELSE LET k     == -x.e
                      q     == BShr(n, k)
                      guard == BBit(n, k - 1) = 1
                      rest  == BLowBits(n, k - 1)
                  IN  IF guard /\ (rest \/ BIsOdd(q)) THEN BAdd(q, <<1>>) ELSE q

(***************************************************************************)
(* The widgets of tab 1 and the values the script computes from them.      *)
(***************************************************************************)
VARIABLES
    margin_available,          \* number_input "Margin Available" (float)
    margin_required,           \* number_input "Margin Required" (float)
    penalty_rate,              \* radio "Choose applicable penalty rate" (float)
    consecutive_days,          \* number_input "Consecutive days of shortfall"
    monthly_instances,         \* number_input "Total instances this month"
    shortfall,
    shortfall_percentage,
    is_penalty_by_amount,
    is_penalty_by_percentage,
    is_penalty_applicable,
    effective_penalty_rate,
    warning,                   \* the st.warning shown by this run, or "none"
    status_card,               \* which of the three result cards this run drew
    penalty_on_shortfall,      \* NotComputed outside the penalty branch
    gst_on_penalty,
    total_penalty,
    reasons,
    last_event,                \* "rerun": the script ran on a new widget value;
                               \* "no rerun": no widget value changed
    last_input_valid           \* the value last entered lay in its widget's range

inputs == <<margin_available, margin_required, penalty_rate,
            consecutive_days, monthly_instances>>
outputs == <<shortfall, shortfall_percentage, is_penalty_by_amount,
             is_penalty_by_percentage, is_penalty_applicable,
             effective_penalty_rate, warning, status_card,
             penalty_on_shortfall, gst_on_penalty, total_penalty, reasons>>
vars == <<inputs, outputs, last_event, last_input_valid>>

\* Widget declarations (amounts in hundredths, rates in tenths of a percent)
MarginAvailableDefault == 36857889
MarginRequiredDefault == 536168921
AmountMinValue == 0
PenaltyRateOptions == <<5, 10, 50>>
PenaltyRateDefaultIndex == 2
DaysMinValue == 0
DaysMaxValue == 10
DaysDefault == 0
InstancesMinValue == 0
InstancesMaxValue == 30
InstancesDefault == 0

\* Policy constants of the calculation
AmountThreshold == 100000
PercentageThreshold == 10
SevereDays == 3
SevereInstances == 5
SeverePenaltyRate == FromDecimal(50, 1)
GstRate == FromDecimal(18, 2)
Hundred == FromInt(100)

NotComputed == [none |-> TRUE]

\* the difference taken without the max(0, ...)
ShortfallAbsolute(mr, ma) == IF FGt(mr, ma) THEN FSub(mr, ma) ELSE FSub(ma, mr)

\* max(0, margin_required - margin_available)
Shortfall(mr, ma) == IF FGt(mr, ma) THEN FSub(mr, ma) ELSE FZero

\* the fraction, not multiplied by 100
ShortfallFraction(s, mr) == IF FGt(mr, FZero) THEN FDiv(s, mr) ELSE FZero

ShortfallPercentage(s, mr) ==
    IF FGt(mr, FZero) THEN FMul(FDiv(s, mr), Hundred) ELSE FZero

\* a threshold of ten thousand instead of one lakh
IsPenaltyByAmountTenThousand(s) == FGe(s, FromInt(10000))

IsPenaltyByAmount(s) == FGe(s, FromInt(AmountThreshold))

IsPenaltyByPercentage(pct) == FGe(pct, FromInt(PercentageThreshold))

IsPenaltyApplicable(byAmount, byPercentage) == byAmount \/ byPercentage

\* the limits taken inclusive
SevereFromLimit(cd, mi) == cd >= SevereDays \/ mi >= SevereInstances

Severe(cd, mi) == cd > SevereDays \/ mi > SevereInstances

EffectivePenaltyRate(pr, cd, mi) == IF Severe(cd, mi) THEN SeverePenaltyRate ELSE pr

Warning(cd, mi) ==
    IF Severe(cd, mi)
    THEN IF cd > SevereDays THEN "consecutive violations"
         ELSE "multiple monthly instances"
    ELSE "none"

\* the shortfall == 0 branch left out
StatusCardWithoutSafe(s, applicable) ==
    IF ~applicable THEN "within limits" ELSE "penalty"

StatusCard(s, applicable) ==
    IF s = FZero THEN "safe"
    ELSE IF ~applicable THEN "within limits"
    ELSE "penalty"

\* the rate taken as a fraction, not as a percentage
PenaltyWithoutPercent(rate, s) == FMul(rate, s)

PenaltyOnShortfall(rate, s) == FMul(FDiv(rate, Hundred), s)

\* the penalty with the GST added where the GST alone is meant
GstInclusive(p) == FMul(p, FromDecimal(118, 2))

GstOnPenalty(p) == FMul(p, GstRate)

TotalPenalty(p, g) == FAdd(p, g)

\* the second test written as an elif
ReasonsFirstOnly(s, pct, byAmount, byPercentage) ==
    IF byAmount THEN <<[trigger |-> "amount", shown |-> Format(s, 2)]>>
    ELSE IF byPercentage
    THEN <<[trigger |-> "percentage", shown |-> Format(pct, 2)]>> ELSE <<>>

Reasons(s, pct, byAmount, byPercentage) ==
    (IF byAmount THEN <<[trigger |-> "amount", shown |-> Format(s, 2)]>> ELSE <<>>)
    \o (IF byPercentage
        THEN <<[trigger |-> "percentage", shown |-> Format(pct, 2)]>> ELSE <<>>)

(***************************************************************************)
(* One run of the script on the widget values, as the record of the        *)
(* variables it leaves set.  The script is straight-line code; each step   *)
(* below takes the variables assigned before it as parameters.             *)
(***************************************************************************)
NoPenalty ==
    [penalty_on_shortfall |-> NotComputed,
     gst_on_penalty       |-> NotComputed,
     total_penalty        |-> NotComputed]

PenaltyTotals(p, g) ==
    [penalty_on_shortfall |-> p,
     gst_on_penalty       |-> g,
     total_penalty        |-> TotalPenalty(p, g)]

PenaltyWithGst(p) == PenaltyTotals(p, GstOnPenalty(p))

\* "# Calculate penalty", in the else branch
CalculatePenalty(rate, s) == PenaltyWithGst(PenaltyOnShortfall(rate, s))

\* "# Penalty status": the three branches
PenaltyStatus(s, pct, byAmount, byPercentage, rate, warn) ==
    LET applicable == IsPenaltyApplicable(byAmount, byPercentage)
        card       == StatusCard(s, applicable)
    IN  [shortfall                |-> s,
         shortfall_percentage     |-> pct,
         is_penalty_by_amount     |-> byAmount,
         is_penalty_by_percentage |-> byPercentage,
         is_penalty_applicable    |-> applicable,
         effective_penalty_rate   |-> rate,
         warning                  |-> warn,
         status_card              |-> card,
         penalty                  |-> IF card = "penalty"
                                      THEN CalculatePenalty(rate, s) ELSE NoPenalty,
         reasons                  |-> IF card = "penalty"
                                      THEN Reasons(s, pct, byAmount, byPercentage)
                                      ELSE <<>>]

\* "# Determine if penalty applies"
DeterminePenalty(s, pct, rate, warn) ==
    PenaltyStatus(s, pct, IsPenaltyByAmount(s), IsPenaltyByPercentage(pct), rate, warn)

\* "# Calculate shortfall", second line
CalculatePercentage(mr, s, rate, warn) ==
    DeterminePenalty(s, ShortfallPercentage(s, mr), rate, warn)

Script(ma, mr, pr, cd, mi) ==
    CalculatePercentage(mr, Shortfall(mr, ma),
                        EffectivePenaltyRate(pr, cd, mi), Warning(cd, mi))

\* a value outside the range moved to the nearest limit
NumberInputClamped(typed, held, lo, hi) ==
    IF typed < lo THEN lo ELSE IF typed > hi THEN hi ELSE typed

\* number_input(min_value=lo, max_value=hi) on integers, likewise
NumberInput(typed, held, lo, hi) ==
    IF lo <= typed /\ typed <= hi THEN typed ELSE held

(***************************************************************************)
(* What the user enters.  Amounts are typed with two decimals (given here  *)
(* in hundredths); the tables hold the cases of interest, the first        *)
(* MaxAmountCases of which are used.                                       *)
(***************************************************************************)
MaxAmountCases == 6

RequiredTable == <<536168921, 0, 100000, 10000000, 100000000, 9999990,
                   200000000, 516331705, 100, 500050>>
AvailableTable == <<36857889, 0, 90000, 91000000, 516331705, 8999991,
                    190000000, 536168921, 90, 450045>>

Min(a, b) == IF a < b THEN a ELSE b

TypedRequired ==
    {RequiredTable[i] : i \in 1..Min(MaxAmountCases, Len(RequiredTable))} \cup {-100}
TypedAvailable ==
    {AvailableTable[i] : i \in 1..Min(MaxAmountCases, Len(AvailableTable))} \cup {-100}
TypedDays == {-1, 0, 3, 4, 10, 11}
TypedInstances == {-1, 0, 5, 6, 30, 31}

\* float(text) of each amount that can be typed, computed once
Parsed ==
    [c \in {t \in TypedRequired \cup TypedAvailable : t >= AmountMinValue}
        |-> FromDecimal(c, 2)]

\* number_input(min_value=0.0): the value the widget holds after the amount
\* `typed` (hundredths) is entered while it held `held`; a value below the
\* minimum is not committed
AmountInput(typed, held) ==
    IF typed >= AmountMinValue THEN Parsed[typed] ELSE held

\* The values each widget can come to hold
RequiredValues == {Parsed[c] : c \in {t \in TypedRequired : t >= AmountMinValue}}
AvailableValues == {Parsed[c] : c \in {t \in TypedAvailable : t >= AmountMinValue}}
RateValues == {FromDecimal(PenaltyRateOptions[i], 1) : i \in 1..Len(PenaltyRateOptions)}
DaysValues == {v \in TypedDays : DaysMinValue <= v /\ v <= DaysMaxValue}
InstancesValues == {v \in TypedInstances : InstancesMinValue <= v /\ v <= InstancesMaxValue}

\* The script is a function of the widget values: its runs, computed once
ScriptRuns ==
    [ma \in AvailableValues |-> [mr \in RequiredValues |-> [pr \in RateValues |->
        [cd \in DaysValues |-> [mi \in InstancesValues |->
            Script(ma, mr, pr, cd, mi)]]]]]

\* The widget values and the variables of the run r become the state
Commit(ma, mr, pr, cd, mi, r) ==
    /\ margin_available' = ma
    /\ margin_required' = mr
    /\ penalty_rate' = pr
    /\ consecutive_days' = cd
    /\ monthly_instances' = mi
    /\ shortfall' = r.shortfall
    /\ shortfall_percentage' = r.shortfall_percentage
    /\ is_penalty_by_amount' = r.is_penalty_by_amount
    /\ is_penalty_by_percentage' = r.is_penalty_by_percentage
    /\ is_penalty_applicable' = r.is_penalty_applicable
    /\ effective_penalty_rate' = r.effective_penalty_rate
    /\ warning' = r.warning
    /\ status_card' = r.status_card
    /\ penalty_on_shortfall' = r.penalty.penalty_on_shortfall
    /\ gst_on_penalty' = r.penalty.gst_on_penalty
    /\ total_penalty' = r.penalty.total_penalty
    /\ reasons' = r.reasons
    /\ last_event' = "rerun"

\* Streamlit re-runs the script after a widget took a new value
Rerun(ma, mr, pr, cd, mi) == Commit(ma, mr, pr, cd, mi, ScriptRuns[ma][mr][pr][cd][mi])

\* No widget took a new value: nothing is committed and the script does not run
NoRerun ==
    /\ UNCHANGED <<inputs, outputs>>
    /\ last_event' = "no rerun"

\* The page opens: the widgets hold their defaults and the script has run once
FirstRun(ma, mr, pr, cd, mi, r) ==
    /\ margin_available = ma
    /\ margin_required = mr
    /\ penalty_rate = pr
    /\ consecutive_days = cd
    /\ monthly_instances = mi
    /\ shortfall = r.shortfall
    /\ shortfall_percentage = r.shortfall_percentage
    /\ is_penalty_by_amount = r.is_penalty_by_amount
    /\ is_penalty_by_percentage = r.is_penalty_by_percentage
    /\ is_penalty_applicable = r.is_penalty_applicable
    /\ effective_penalty_rate = r.effective_penalty_rate
    /\ warning = r.warning
    /\ status_card = r.status_card
    /\ penalty_on_shortfall = r.penalty.penalty_on_shortfall
    /\ gst_on_penalty = r.penalty.gst_on_penalty
    /\ total_penalty = r.penalty.total_penalty
    /\ reasons = r.reasons
    /\ last_event = "rerun"
    /\ last_input_valid = TRUE

DefaultRun(ma, mr, pr) ==
    FirstRun(ma, mr, pr, DaysDefault, InstancesDefault,
             ScriptRuns[ma][mr][pr][DaysDefault][InstancesDefault])

Init ==
    DefaultRun(Parsed[MarginAvailableDefault], Parsed[MarginRequiredDefault],
               FromDecimal(PenaltyRateOptions[PenaltyRateDefaultIndex], 1))

SetMarginAvailable ==
    \E c \in TypedAvailable :
        LET v == AmountInput(c, margin_available)
        IN  /\ last_input_valid' = (c >= AmountMinValue)
            /\ IF v # margin_available
               THEN Rerun(v, margin_required, penalty_rate,
                          consecutive_days, monthly_instances)
               ELSE NoRerun

SetMarginRequired ==
    \E c \in TypedRequired :
        LET v == AmountInput(c, margin_required)
        IN  /\ last_input_valid' = (c >= AmountMinValue)
            /\ IF v # margin_required
               THEN Rerun(margin_available, v, penalty_rate,
                          consecutive_days, monthly_instances)
               ELSE NoRerun

\* radio: only the listed options can be chosen
SetPenaltyRate ==
    \E i \in 1..Len(PenaltyRateOptions) :
        LET v == FromDecimal(PenaltyRateOptions[i], 1)
        IN  /\ last_input_valid' = TRUE
            /\ IF v # penalty_rate
               THEN Rerun(margin_available, margin_required, v,
                          consecutive_days, monthly_instances)
               ELSE NoRerun

SetConsecutiveDays ==
    \E t \in TypedDays :
        LET v == NumberInput(t, consecutive_days, DaysMinValue, DaysMaxValue)
        IN  /\ last_input_valid' = (DaysMinValue <= t /\ t <= DaysMaxValue)
            /\ IF v # consecutive_days
               THEN Rerun(margin_available, margin_required, penalty_rate,
                          v, monthly_instances)
               ELSE NoRerun

SetMonthlyInstances ==
    \E t \in TypedInstances :
        LET v == NumberInput(t, monthly_instances, InstancesMinValue, InstancesMaxValue)
        IN  /\ last_input_valid' = (InstancesMinValue <= t /\ t <= InstancesMaxValue)
            /\ IF v # monthly_instances
               THEN Rerun(margin_available, margin_required, penalty_rate,
                          consecutive_days, v)
               ELSE NoRerun

Next ==
    \/ SetMarginAvailable
    \/ SetMarginRequired
    \/ SetPenaltyRate
    \/ SetConsecutiveDays
    \/ SetMonthlyInstances

Spec == Init /\ [][Next]_vars

(***************************************************************************)
(* The amounts as decimals.  An amount is typed with two decimals, so the  *)
(* widget's float, rounded to two decimals, is the amount typed, in        *)
(* hundredths; on these the shortfall and the thresholds of the rules are  *)
(* computed exactly, without floating point.                               *)
(***************************************************************************)
RequiredCents == Format(margin_required, 2)
AvailableCents == Format(margin_available, 2)

DecimalShortfallCents ==
    IF BCmp(RequiredCents, AvailableCents) > 0
    THEN BSub(RequiredCents, AvailableCents) ELSE <<>>

\* shortfall >= 100000, on the decimals
DecimalByAmount ==
    BCmp(DecimalShortfallCents, BMulSmall(BFromInt(100000), 100)) >= 0

\* (shortfall / margin_required) * 100 >= 10, on the decimals
DecimalByPercentage ==
    /\ RequiredCents # <<>>
    /\ BCmp(BMulSmall(DecimalShortfallCents, 100),
            BMulSmall(RequiredCents, 10)) >= 0

\* C1: for every margin required and margin available (both >= 0) the penalty
\* is applicable if and only if the shortfall is at least 100000 or the
\* shortfall is at least 10 percent of the margin required, both inclusive.
C1_ApplicableIffThresholdReached ==
    is_penalty_applicable <=> (DecimalByAmount \/ DecimalByPercentage)

\* C2: the shortfall shown is max(0, margin required - margin available), and
\* the shortfall lies between 0 and the margin required.
C2_ShortfallIsClampedDifference ==
    /\ Format(shortfall, 2) = DecimalShortfallCents
    /\ FGe(shortfall, FZero)
    /\ FGe(margin_required, shortfall)

\* C2: the script has run on a margin available above a non-zero margin
\* required, where the difference is negative and the shortfall is 0.
C2_WitnessClamped ==
    /\ last_event = "rerun"
    /\ margin_required # FZero
    /\ FGt(margin_available, margin_required)
    /\ shortfall = FZero

(***************************************************************************)
(* Comparing floats as the numbers they are: a float, or an exact product  *)
(* of floats, is m * 2^e with m a natural number of any size.              *)
(***************************************************************************)
Scaled(x, e0) == BShl(x.m, x.e - e0)

BAbsDiff(a, b) == IF BCmp(a, b) >= 0 THEN BSub(a, b) ELSE BSub(b, a)

\* the product of two floats, not rounded
ExactProduct(x, y) == [m |-> BMul(x.m, y.m), e |-> x.e + y.e]

\* kx * x and ky * y differ by at most 10^-15 of kx * x
Tolerance == Pow10(15)

CloseTo(x, kx, y, ky) ==
    LET e0 == Min(x.e, y.e)
        a  == BMulSmall(Scaled(x, e0), kx)
        b  == BMulSmall(Scaled(y, e0), ky)
        d  == BAbsDiff(a, b)
    IN  a = b \/ (d # <<>> /\ BCmp(BMul(d, Tolerance), a) <= 0)

\* C3 as stated: in the penalty case penalty = (effective rate / 100) * shortfall,
\* gst = 0.18 * penalty exactly and total = penalty + gst = 1.18 * penalty.
C3_TotalIsExactly118Percent ==
    status_card = "penalty" =>
        /\ penalty_on_shortfall
               = FMul(FDiv(effective_penalty_rate, FromInt(100)), shortfall)
        /\ gst_on_penalty = FMul(penalty_on_shortfall, FromDecimal(18, 2))
        /\ total_penalty = FAdd(penalty_on_shortfall, gst_on_penalty)
        /\ total_penalty = FMul(FromDecimal(118, 2), penalty_on_shortfall)

\* C3, amended: in the penalty case penalty = (effective rate / 100) * shortfall,
\* gst = penalty * 0.18 and total = penalty + gst, each as the float operation
\* gives it; the penalty is the hundredth of rate * shortfall and the total is
\* 1.18 * penalty up to floating-point rounding (10^-15 of the value), not
\* bit for bit.
C3_PenaltyGstTotal ==
    status_card = "penalty" =>
        /\ penalty_on_shortfall
               = FMul(FDiv(effective_penalty_rate, FromInt(100)), shortfall)
        /\ gst_on_penalty = FMul(penalty_on_shortfall, FromDecimal(18, 2))
        /\ total_penalty = FAdd(penalty_on_shortfall, gst_on_penalty)
        /\ CloseTo(penalty_on_shortfall, 100,
                   ExactProduct(effective_penalty_rate, shortfall), 1)
        /\ CloseTo(total_penalty, 100, penalty_on_shortfall, 118)

\* C3: a penalty was computed at the escalated rate, and its total is not the
\* float 1.18 * penalty.
C3_WitnessRoundedTotal ==
    /\ last_event = "rerun"
    /\ status_card = "penalty"
    /\ effective_penalty_rate # penalty_rate
    /\ total_penalty # FMul(FromDecimal(118, 2), penalty_on_shortfall)

\* C4: with consecutive days > 3 or monthly instances > 5 the effective rate
\* is 5.0 whatever base rate is chosen; otherwise it is the base rate chosen.
C4_EffectiveRate ==
    /\ (consecutive_days > 3 \/ monthly_instances > 5)
           => effective_penalty_rate = FromDecimal(50, 1)
    /\ (consecutive_days <= 3 /\ monthly_instances <= 5)
           => effective_penalty_rate = penalty_rate

\* C4: 4 consecutive days, no more than 5 instances, base rate 0.5: the
\* script ran and the effective rate is 5.0.
C4_WitnessFourDays ==
    /\ last_event = "rerun"
    /\ consecutive_days = 4
    /\ monthly_instances <= 5
    /\ penalty_rate = FromDecimal(5, 1)
    /\ effective_penalty_rate = FromDecimal(50, 1)

NoPenaltyComputed ==
    /\ penalty_on_shortfall = NotComputed
    /\ gst_on_penalty = NotComputed
    /\ total_penalty = NotComputed

\* C5: with margin available >= margin required the outcome is "safe": the
\* shortfall is 0, no penalty is applicable, there are no reasons and no
\* penalty, GST or total is computed, whatever the rate, days and instances.
C5_SafeOutcome ==
    FGe(margin_available, margin_required) =>
        /\ status_card = "safe"
        /\ shortfall = FZero
        /\ ~is_penalty_applicable
        /\ reasons = <<>>
        /\ NoPenaltyComputed

\* C5: the script ran with the margin available above the margin required,
\* a base rate other than the default and more than 3 consecutive days.
C5_WitnessSafeEscalated ==
    /\ last_event = "rerun"
    /\ FGt(margin_available, margin_required)
    /\ consecutive_days > 3
    /\ penalty_rate = FromDecimal(5, 1)
    /\ status_card = "safe"

\* C6: with a shortfall above 0 but below 100000 and below 10 percent the
\* outcome is "within limits": no penalty is applicable and no penalty, GST or
\* total is computed, also with consecutive days > 3 or monthly instances > 5;
\* margin required 1000000 and margin available 910000 give shortfall 90000,
\* 9 percent, no penalty applicable.
C6_WithinLimits ==
    /\ (/\ shortfall # FZero
        /\ ~FGe(shortfall, FromInt(100000))
        /\ ~FGe(shortfall_percentage, FromInt(10)))
           => /\ status_card = "within limits"
              /\ ~is_penalty_applicable
              /\ reasons = <<>>
              /\ NoPenaltyComputed
    /\ (/\ margin_required = FromInt(1000000)
        /\ margin_available = FromInt(910000))
           => /\ shortfall = FromInt(90000)
              /\ shortfall_percentage = FromInt(9)
              /\ ~is_penalty_applicable

\* C6: the script ran on margin required 1000000, margin available 910000
\* with more than 3 consecutive days and more than 5 monthly instances.
C6_WitnessExampleEscalated ==
    /\ last_event = "rerun"
    /\ margin_required = FromInt(1000000)
    /\ margin_available = FromInt(910000)
    /\ consecutive_days > 3
    /\ monthly_instances > 5
    /\ effective_penalty_rate = FromDecimal(50, 1)
    /\ status_card = "within limits"

\* C7: a value outside its widget's range (an amount below 0, consecutive
\* days outside 0..10, monthly instances outside 0..30) is refused before
\* anything is computed: no widget value changes, in particular none is moved
\* to a limit, and the script does not run; the widgets only ever hold values
\* in range and one of the three listed rates.
C7_OutOfRangeRefused ==
    [][/\ ~last_input_valid' =>
              /\ UNCHANGED <<inputs, outputs>>
              /\ last_event' = "no rerun"
       /\ consecutive_days' \in 0..10
       /\ monthly_instances' \in 0..30
       /\ penalty_rate' \in {FromDecimal(5, 1), FromInt(1), FromInt(5)}]_vars

\* C7: a value out of range was entered while the day and instance widgets
\* held 4 and 6 (neither a limit of its range), and they still hold them.
C7_WitnessRefused ==
    /\ ~last_input_valid
    /\ last_event = "no rerun"
    /\ consecutive_days = 4
    /\ monthly_instances = 6

\* the natural number hi * 10^n + lo
Digits(hi, n, lo) == BAdd(BMul(BFromInt(hi), Pow10(n)), BFromInt(lo))

\* margin required 5361689.21, margin available 368578.89, base rate 1.0,
\* no escalation
WorkedScenario ==
    /\ margin_required = FromDecimal(536168921, 2)
    /\ margin_available = FromDecimal(36857889, 2)
    /\ penalty_rate = FromInt(1)
    /\ consecutive_days <= 3
    /\ monthly_instances <= 5

\* C8 as stated: the worked scenario gives shortfall = 4993110.32, percentage
\* about 93.13, penalty applicable, penalty = 49931.1032, gst = 8987.5986 and
\* total about 58918.70.
C8_ScenarioExactValues ==
    WorkedScenario =>
        /\ shortfall = FromDecimal(499311032, 2)
        /\ Format(shortfall_percentage, 2) = BFromInt(9313)
        /\ is_penalty_applicable
        /\ penalty_on_shortfall = FromDecimal(499311032, 4)
        /\ gst_on_penalty = FromDecimal(89875986, 4)
        /\ Format(total_penalty, 2) = BFromInt(5891870)

\* C8, amended: the worked scenario gives shortfall = 4993110.32, percentage
\* 93.13 to two decimals, penalty applicable, penalty 49931.1032 and gst
\* 8987.5986 when rounded to four decimals (the gst is 8987.598576 to six
\* decimals) and total 58918.70 to two decimals.
C8_ScenarioRoundedValues ==
    WorkedScenario =>
        /\ shortfall = FromDecimal(499311032, 2)
        /\ Format(shortfall_percentage, 2) = BFromInt(9313)
        /\ is_penalty_applicable
        /\ status_card = "penalty"
        /\ Format(penalty_on_shortfall, 4) = BFromInt(499311032)
        /\ Format(gst_on_penalty, 4) = BFromInt(89875986)
        /\ Format(gst_on_penalty, 6) = Digits(89875, 5, 98576)
        /\ Format(total_penalty, 2) = BFromInt(5891870)

\* C8: the script ran again on the worked scenario (3 consecutive days).
C8_WitnessScenario ==
    /\ last_event = "rerun"
    /\ WorkedScenario
    /\ consecutive_days = 3
    /\ total_penalty # NotComputed

AmountReason == [trigger |-> "amount", shown |-> Format(shortfall, 2)]
PercentageReason == [trigger |-> "percentage", shown |-> Format(shortfall_percentage, 2)]

\* C9: in the penalty case the reasons hold the amount reason (with the
\* shortfall shown) exactly when shortfall >= 100000 and the percentage reason
\* (with the percentage shown) exactly when the percentage >= 10, the amount
\* reason first when both are there; the list is never empty and never longer
\* than two.
C9_TriggerReasons ==
    status_card = "penalty" =>
        LET byA == FGe(shortfall, FromInt(100000))
            byP == FGe(shortfall_percentage, FromInt(10))
        IN  /\ Len(reasons) \in 1..2
            /\ (byA /\ byP)  => reasons = <<AmountReason, PercentageReason>>
            /\ (byA /\ ~byP) => reasons = <<AmountReason>>
            /\ (~byA /\ byP) => reasons = <<PercentageReason>>

\* C9: the script ran on values that reach both thresholds and listed both
\* reasons.
C9_WitnessBothReasons ==
    /\ last_event = "rerun"
    /\ status_card = "penalty"
    /\ Len(reasons) = 2
    /\ margin_available # FromDecimal(MarginAvailableDefault, 2)

\* C10: the percentage is (shortfall / margin required) * 100 (up to
\* floating-point rounding) when the margin required is above 0, and 0 when
\* it is 0, where no division happens and the shortfall is 0 as well; the
\* percentage always lies between 0 and 100.
C10_PercentageOfRequired ==
    /\ margin_required = FZero =>
           /\ shortfall_percentage = FZero
           /\ shortfall = FZero
    /\ margin_required # FZero =>
           CloseTo(shortfall, 100, ExactProduct(shortfall_percentage, margin_required), 1)
    /\ FGe(shortfall_percentage, FZero)
    /\ FGe(FromInt(100), shortfall_percentage)

\* C10: the script ran with margin required 0 and a margin available above 0.
C10_WitnessZeroRequired ==
    /\ last_event = "rerun"
    /\ margin_required = FZero
    /\ margin_available # FZero
    /\ shortfall_percentage = FZero

\* What a run shows next to the widgets: the st.warning, the shortfall
\* metrics (two decimals), the status card, and on the penalty card the
\* rate, the amounts and the reasons
VisibleOutput(r) ==
    [warning              |-> r.warning,
     shortfall            |-> Format(r.shortfall, 2),
     shortfall_percentage |-> Format(r.shortfall_percentage, 2),
     status_card          |-> r.status_card,
     rate                 |-> IF r.status_card = "penalty"
                              THEN r.effective_penalty_rate ELSE NotComputed,
     penalty              |-> r.penalty,
     reasons              |-> r.reasons]

\* The run the page currently shows
ShownRun == ScriptRuns[margin_available][margin_required][penalty_rate]
                      [consecutive_days][monthly_instances]

\* The runs with the same margins and base rate and any days and instances
OtherRuns ==
    {ScriptRuns[margin_available][margin_required][penalty_rate][cd][mi] :
        cd \in DaysValues, mi \in InstancesValues}

\* C11: when no penalty is applicable, any run with the same margin
\* available, margin required and base rate but other consecutive days or
\* monthly instances shows exactly the same output.
C11_EscalationInvisibleWithoutPenalty ==
    ~is_penalty_applicable =>
        \A r \in OtherRuns : VisibleOutput(r) = VisibleOutput(ShownRun)

\* C11: when no penalty is applicable, such runs show the same output except
\* for the st.warning, and differ in the effective rate they hold.
C11_OnlyWarningDiffers ==
    ~is_penalty_applicable =>
        \A r \in OtherRuns :
            /\ [VisibleOutput(r) EXCEPT !.warning = "none"]
                   = [VisibleOutput(ShownRun) EXCEPT !.warning = "none"]
            /\ r.warning = Warning(consecutive_days, monthly_instances)
                   <=> VisibleOutput(r) = VisibleOutput(ShownRun)

\* C11: the script ran with a shortfall below both thresholds, base rate
\* 0.5% and more than 3 consecutive days: the "Within Limits" card is shown
\* under the warning that the rate was increased to 5%.
C11_WitnessWarningWithoutPenalty ==
    /\ last_event = "rerun"
    /\ status_card = "within limits"
    /\ ~is_penalty_applicable
    /\ penalty_rate = FromDecimal(5, 1)
    /\ consecutive_days > SevereDays
    /\ warning = "consecutive violations"
    /\ effective_penalty_rate = SeverePenaltyRate
    /\ ShownRun.warning = warning

====
